---------------------------- MODULE Spec2Model ----------------------------
(***************************************************************************)
(* Model of runtime/context.go of grpc-gateway: the translation of an      *)
(* inbound HTTP request into the context and metadata bag of a gRPC call   *)
(* (AnnotateContext, AnnotateIncomingContext, annotateContext,             *)
(* decodeBinHeader, timeoutDecode).                                        *)
(*                                                                         *)
(* Go strings are byte sequences: a string is a sequence of byte codes     *)
(* (0..255), so that case folding, prefix and suffix tests, base64 and     *)
(* integer parsing are computed as the code computes them.                 *)
(* An int64 / time.Duration is a sequence of eight bytes, little-endian,   *)
(* two's complement: arithmetic wraps modulo 2^64 as Go's does.            *)
(***************************************************************************)
EXTENDS Integers, Sequences, FiniteSets, TLC

\* ------------------------------------------------------------------------
\* Program constants (context.go:24-38)
\* ------------------------------------------------------------------------
MetadataHeaderPrefix == <<71, 114, 112, 99, 45, 77, 101, 116, 97, 100, 97, 116, 97, 45>>  \* "Grpc-Metadata-"
MetadataPrefix == <<103, 114, 112, 99, 103, 97, 116, 101, 119, 97, 121, 45>>  \* "grpcgateway-"
metadataGrpcTimeout == <<71, 114, 112, 99, 45, 84, 105, 109, 101, 111, 117, 116>>  \* "Grpc-Timeout"
metadataHeaderBinarySuffix == <<45, 66, 105, 110>>  \* "-Bin"
xForwardedFor == <<88, 45, 70, 111, 114, 119, 97, 114, 100, 101, 100, 45, 70, 111, 114>>  \* "X-Forwarded-For"
xForwardedHost == <<88, 45, 70, 111, 114, 119, 97, 114, 100, 101, 100, 45, 72, 111, 115, 116>>  \* "X-Forwarded-Host"
AuthorizationKey == <<65, 117, 116, 104, 111, 114, 105, 122, 97, 116, 105, 111, 110>>  \* "Authorization" (context.go:117)
authorizationLower == <<97, 117, 116, 104, 111, 114, 105, 122, 97, 116, 105, 111, 110>>  \* "authorization" (context.go:118)

\* ------------------------------------------------------------------------
\* Strings (package strings / textproto, as called from context.go)
\* ------------------------------------------------------------------------
IsUpper(c) == c >= 65 /\ c <= 90
IsLower(c) == c >= 97 /\ c <= 122
IsDigit(c) == c >= 48 /\ c <= 57

\* strings.ToLower on ASCII
ToLower(s) == [i \in 1..Len(s) |-> IF IsUpper(s[i]) THEN s[i] + 32 ELSE s[i]]

HasPrefix(s, p) == Len(s) >= Len(p) /\ SubSeq(s, 1, Len(p)) = p
HasSuffix(s, p) == Len(s) >= Len(p) /\ SubSeq(s, Len(s) - Len(p) + 1, Len(s)) = p
Contains(s, c) == \E i \in 1..Len(s) : s[i] = c

\* textproto's validHeaderFieldByte: the token characters of RFC 7230
validHeaderFieldByte(c) ==
    \/ IsUpper(c) \/ IsLower(c) \/ IsDigit(c)
    \/ c \in {33, 35, 36, 37, 38, 39, 42, 43, 45, 46, 94, 95, 96, 124, 126}

\* textproto.CanonicalMIMEHeaderKey: a key holding a byte that is no token
\* character is returned unchanged; otherwise the first letter and every
\* letter after a '-' is upper-cased and every other letter lower-cased.
CanonicalMIMEHeaderKey(s) ==
    IF \E i \in 1..Len(s) : ~validHeaderFieldByte(s[i])
    THEN s
    ELSE [i \in 1..Len(s) |->
            LET upper == (i = 1) \/ (s[i - 1] = 45)
            IN  IF upper /\ IsLower(s[i]) THEN s[i] - 32
                ELSE IF ~upper /\ IsUpper(s[i]) THEN s[i] + 32
                ELSE s[i]]

\* fmt.Sprintf("%s, %s", a, b)
SprintfCommaSpace(a, b) == a \o <<44, 32>> \o b

\* ------------------------------------------------------------------------
\* int64 / time.Duration: eight bytes, little-endian, two's complement
\* ------------------------------------------------------------------------
Limbs == 1..8

\* the int64 of a small natural number n (n < 2^31)
RECURSIVE BytesOf(_, _)
BytesOf(n, k) == IF k = 0 THEN <<>> ELSE <<n % 256>> \o BytesOf(n \div 256, k - 1)
I64(n) == BytesOf(n, 8)

Zero64 == I64(0)
IsNeg64(a) == a[8] >= 128

\* a * b modulo 2^64 (schoolbook product, truncated to eight bytes)
RECURSIVE MulCol(_, _, _, _)
MulCol(a, b, k, i) ==
    IF i > k THEN 0 ELSE a[i] * b[k + 1 - i] + MulCol(a, b, k, i + 1)
RECURSIVE MulFrom(_, _, _, _)
MulFrom(a, b, k, carry) ==
    IF k > 8 THEN <<>>
    ELSE LET t == MulCol(a, b, k, 1) + carry
         IN  <<t % 256>> \o MulFrom(a, b, k + 1, t \div 256)
Mul64(a, b) == MulFrom(a, b, 1, 0)

\* a + b modulo 2^64
RECURSIVE AddFrom(_, _, _, _)
AddFrom(a, b, k, carry) ==
    IF k > 8 THEN <<>>
    ELSE LET t == a[k] + b[k] + carry
         IN  <<t % 256>> \o AddFrom(a, b, k + 1, t \div 256)
Add64(a, b) == AddFrom(a, b, 1, 0)

\* -a modulo 2^64
Neg64(a) == Add64([i \in Limbs |-> 255 - a[i]], I64(1))

\* unsigned comparison a < b, from the most significant byte down
RECURSIVE ULessFrom(_, _, _)
ULessFrom(a, b, k) ==
    IF k = 0 THEN FALSE
    ELSE IF a[k] # b[k] THEN a[k] < b[k]
    ELSE ULessFrom(a, b, k - 1)
\* signed comparison a < b
Less64(a, b) ==
    IF IsNeg64(a) # IsNeg64(b) THEN IsNeg64(a) ELSE ULessFrom(a, b, 8)

\* package time: the units as counts of nanoseconds
Nanosecond == I64(1)
Microsecond == Mul64(I64(1000), Nanosecond)
Millisecond == Mul64(I64(1000), Microsecond)
Second == Mul64(I64(1000), Millisecond)
Minute == Mul64(I64(60), Second)
Hour == Mul64(I64(60), Minute)


\* ------------------------------------------------------------------------
\* strconv.ParseInt(s, 10, 64), as called by timeoutDecode
\* ------------------------------------------------------------------------
ParseFail == [ok |-> FALSE, val |-> Zero64]

\* n * 10 + d on eight bytes, with the carry out of the top byte
RECURSIVE MulAddFrom(_, _, _)
MulAddFrom(n, k, carry) ==
    IF k > 8 THEN [val |-> <<>>, carry |-> carry]
    ELSE LET t == n[k] * 10 + carry
             r == MulAddFrom(n, k + 1, t \div 256)
         IN  [val |-> <<t % 256>> \o r.val, carry |-> r.carry]

\* strconv.ParseUint(s, 10, 64): a syntax error on an empty string or a byte
\* that is no decimal digit, a range error when the value passes 2^64 - 1
RECURSIVE ParseUintFrom(_, _, _)
ParseUintFrom(s, i, n) ==
    IF i > Len(s) THEN [ok |-> TRUE, val |-> n]
    ELSE IF ~IsDigit(s[i]) THEN ParseFail
    ELSE LET m == MulAddFrom(n, 1, s[i] - 48)
         IN  IF m.carry # 0 THEN ParseFail ELSE ParseUintFrom(s, i + 1, m.val)
ParseUint(s) == IF Len(s) = 0 THEN ParseFail ELSE ParseUintFrom(s, 1, Zero64)

\* strconv.ParseInt(s, 10, 64): an optional sign, then ParseUint; a range
\* error when the magnitude passes 2^63 - 1 (2^63 for a negative number)
ParseInt(s) ==
    IF Len(s) = 0 THEN ParseFail
    ELSE LET neg == s[1] = 45
             rest == IF s[1] = 43 \/ s[1] = 45 THEN SubSeq(s, 2, Len(s)) ELSE s
             un == ParseUint(rest)
             cutoff == [i \in Limbs |-> IF i = 8 THEN 128 ELSE 0]
         IN  IF ~un.ok THEN ParseFail
             ELSE IF ~neg /\ ~ULessFrom(un.val, cutoff, 8) THEN ParseFail
             ELSE IF neg /\ ULessFrom(cutoff, un.val, 8) THEN ParseFail
             ELSE [ok |-> TRUE, val |-> IF neg THEN Neg64(un.val) ELSE un.val]

\* ------------------------------------------------------------------------
\* timeoutUnitToDuration, timeoutDecode (context.go:185-218)
\* ------------------------------------------------------------------------
timeoutUnitToDuration(u) ==
    IF u = 72 THEN [d |-> Hour, ok |-> TRUE]                  \* 'H'
    ELSE IF u = 77 THEN [d |-> Minute, ok |-> TRUE]           \* 'M'
    ELSE IF u = 83 THEN [d |-> Second, ok |-> TRUE]           \* 'S'
    ELSE IF u = 109 THEN [d |-> Millisecond, ok |-> TRUE]     \* 'm'
    ELSE IF u = 117 THEN [d |-> Microsecond, ok |-> TRUE]     \* 'u'
    ELSE IF u = 110 THEN [d |-> Nanosecond, ok |-> TRUE]      \* 'n'
    ELSE [d |-> Zero64, ok |-> FALSE]

timeoutDecode(s) ==
    LET size == Len(s)
    IN  IF size < 2 THEN [ok |-> FALSE, d |-> Zero64]
        ELSE LET unit == timeoutUnitToDuration(s[size])
                 t == ParseInt(SubSeq(s, 1, size - 1))
             IN  IF ~unit.ok THEN [ok |-> FALSE, d |-> Zero64]
                 ELSE IF ~t.ok THEN [ok |-> FALSE, d |-> Zero64]
                 ELSE [ok |-> TRUE, d |-> Mul64(unit.d, t.val)]

\* ------------------------------------------------------------------------
\* encoding/base64 DecodeString, decodeBinHeader (context.go:46-52)
\* ------------------------------------------------------------------------
\* the decode map of the standard alphabet; -1 for a byte outside it
B64Index(c) ==
    IF IsUpper(c) THEN c - 65
    ELSE IF IsLower(c) THEN c - 71
    ELSE IF IsDigit(c) THEN c + 4
    ELSE IF c = 43 THEN 62
    ELSE IF c = 47 THEN 63
    ELSE -1

DecodeFail == [ok |-> FALSE, bytes |-> <<>>]

\* The decoder skips '\r' and '\n' wherever they stand.
StripNewlines(s) == SelectSeq(s, LAMBDA c : c # 10 /\ c # 13)

\* One quantum of up to four characters at a time (decodeQuantum). `padded`
\* is StdEncoding (pad character '='), otherwise RawStdEncoding (no padding:
\* '=' is a corrupt byte like any other). Trailing bits are not checked.
RECURSIVE DecodeQuanta(_, _)
DecodeQuanta(s, padded) ==
    IF Len(s) = 0 THEN [ok |-> TRUE, bytes |-> <<>>]
    ELSE
    LET n == IF Len(s) < 4 THEN Len(s) ELSE 4
        bad == {i \in 1..n : B64Index(s[i]) < 0}
        j == IF bad = {} THEN n ELSE (CHOOSE i \in bad : \A k \in bad : i <= k) - 1
        dbuf == [i \in 1..4 |-> IF i <= j THEN B64Index(s[i]) ELSE 0]
        val == dbuf[1] * 262144 + dbuf[2] * 4096 + dbuf[3] * 64 + dbuf[4]
        out == <<val \div 65536, (val \div 256) % 256, val % 256>>
    IN  IF j = 4
        THEN LET rest == DecodeQuanta(SubSeq(s, 5, Len(s)), padded)
             IN  IF rest.ok THEN [ok |-> TRUE, bytes |-> out \o rest.bytes]
                 ELSE DecodeFail
        ELSE IF j = Len(s)
        THEN \* the input ends inside the quantum
             IF j = 1 \/ padded THEN DecodeFail
             ELSE [ok |-> TRUE, bytes |-> SubSeq(out, 1, j - 1)]
        ELSE \* s[j + 1] is outside the alphabet
             IF ~padded \/ s[j + 1] # 61 THEN DecodeFail
             ELSE IF j < 2 THEN DecodeFail
             ELSE IF j = 2 /\ (Len(s) < 4 \/ s[4] # 61) THEN DecodeFail
             ELSE IF Len(s) > 4 THEN DecodeFail
             ELSE [ok |-> TRUE, bytes |-> SubSeq(out, 1, j - 1)]

DecodeString(s, padded) == DecodeQuanta(StripNewlines(s), padded)

\* decodeBinHeader decoding every value with base64.StdEncoding
decodeBinHeaderStdOnly(v) == DecodeString(v, TRUE)

decodeBinHeader(v) ==
    IF Len(v) % 4 = 0
    THEN DecodeString(v, TRUE)     \* base64.StdEncoding
    ELSE DecodeString(v, FALSE)    \* base64.RawStdEncoding

\* ------------------------------------------------------------------------
\* net.SplitHostPort, as called at context.go:142
\* ------------------------------------------------------------------------
SplitFail == [ok |-> FALSE, host |-> <<>>]
IndexByte(s, c) ==
    IF Contains(s, c) THEN CHOOSE i \in 1..Len(s) : s[i] = c /\ \A k \in 1..(i - 1) : s[k] # c
    ELSE 0
LastIndexByte(s, c) ==
    IF Contains(s, c) THEN CHOOSE i \in 1..Len(s) : s[i] = c /\ \A k \in (i + 1)..Len(s) : s[k] # c
    ELSE 0

\* Positions are 1-based; 0 stands for Go's -1.
SplitHostPort(hostport) ==
    LET i == LastIndexByte(hostport, 58)
        end == IndexByte(hostport, 93)
        bracketed == hostport[1] = 91
        host == IF bracketed THEN SubSeq(hostport, 2, end - 1) ELSE SubSeq(hostport, 1, i - 1)
        j == IF bracketed THEN 2 ELSE 1
        k == IF bracketed THEN end + 1 ELSE 1
    IN  IF i = 0 THEN SplitFail                                  \* missing port
        ELSE IF bracketed /\ end = 0 THEN SplitFail              \* missing ']'
        ELSE IF bracketed /\ end + 1 # i THEN SplitFail          \* missing port, too many colons
        ELSE IF ~bracketed /\ Contains(host, 58) THEN SplitFail  \* too many colons
        ELSE IF Contains(SubSeq(hostport, j, Len(hostport)), 91) THEN SplitFail
        ELSE IF Contains(SubSeq(hostport, k, Len(hostport)), 93) THEN SplitFail
        ELSE [ok |-> TRUE, host |-> host]

\* ------------------------------------------------------------------------
\* isPermanentHTTPHeader (context.go:223-253) and the header matchers
\* ------------------------------------------------------------------------
PermanentHTTPHeaders ==
    { <<65, 99, 99, 101, 112, 116>>,  \* "Accept"
      <<65, 99, 99, 101, 112, 116, 45, 67, 104, 97, 114, 115, 101, 116>>,  \* "Accept-Charset"
      <<65, 99, 99, 101, 112, 116, 45, 76, 97, 110, 103, 117, 97, 103, 101>>,  \* "Accept-Language"
      <<65, 99, 99, 101, 112, 116, 45, 82, 97, 110, 103, 101, 115>>,  \* "Accept-Ranges"
      <<65, 117, 116, 104, 111, 114, 105, 122, 97, 116, 105, 111, 110>>,  \* "Authorization"
      <<67, 97, 99, 104, 101, 45, 67, 111, 110, 116, 114, 111, 108>>,  \* "Cache-Control"
      <<67, 111, 110, 116, 101, 110, 116, 45, 84, 121, 112, 101>>,  \* "Content-Type"
      <<67, 111, 111, 107, 105, 101>>,  \* "Cookie"
      <<68, 97, 116, 101>>,  \* "Date"
      <<69, 120, 112, 101, 99, 116>>,  \* "Expect"
      <<70, 114, 111, 109>>,  \* "From"
      <<72, 111, 115, 116>>,  \* "Host"
      <<73, 102, 45, 77, 97, 116, 99, 104>>,  \* "If-Match"
      <<73, 102, 45, 77, 111, 100, 105, 102, 105, 101, 100, 45, 83, 105, 110, 99, 101>>,  \* "If-Modified-Since"
      <<73, 102, 45, 78, 111, 110, 101, 45, 77, 97, 116, 99, 104>>,  \* "If-None-Match"
      <<73, 102, 45, 83, 99, 104, 101, 100, 117, 108, 101, 45, 84, 97, 103, 45, 77, 97, 116, 99, 104>>,  \* "If-Schedule-Tag-Match"
      <<73, 102, 45, 85, 110, 109, 111, 100, 105, 102, 105, 101, 100, 45, 83, 105, 110, 99, 101>>,  \* "If-Unmodified-Since"
      <<77, 97, 120, 45, 70, 111, 114, 119, 97, 114, 100, 115>>,  \* "Max-Forwards"
      <<79, 114, 105, 103, 105, 110>>,  \* "Origin"
      <<80, 114, 97, 103, 109, 97>>,  \* "Pragma"
      <<82, 101, 102, 101, 114, 101, 114>>,  \* "Referer"
      <<85, 115, 101, 114, 45, 65, 103, 101, 110, 116>>,  \* "User-Agent"
      <<86, 105, 97>>,  \* "Via"
      <<87, 97, 114, 110, 105, 110, 103>> }  \* "Warning"

isPermanentHTTPHeader(hdr) == hdr \in PermanentHTTPHeaders

NoMatch == [h |-> <<>>, ok |-> FALSE]

\* The default incoming-header matcher: a permanent header maps to the
\* gateway prefix followed by its name, a header with the custom-metadata
\* prefix maps to the rest of its name, any other header is dropped.
DefaultHeaderMatcher(key) ==
    LET k == CanonicalMIMEHeaderKey(key)
    IN  IF isPermanentHTTPHeader(k) THEN [h |-> MetadataPrefix \o k, ok |-> TRUE]
        ELSE IF HasPrefix(k, MetadataHeaderPrefix)
        THEN [h |-> SubSeq(k, Len(MetadataHeaderPrefix) + 1, Len(k)), ok |-> TRUE]
        ELSE NoMatch

\* A matcher a caller injects in place of the default: it accepts every
\* header under its own name.
AcceptAllMatcher(key) == [h |-> key, ok |-> TRUE]

\* mux.incomingHeaderMatcher: the matcher function the mux was built with
incomingHeaderMatcher(m, key) ==
    IF m.incomingHeaderMatcher = "default" THEN DefaultHeaderMatcher(key)
    ELSE AcceptAllMatcher(key)

\* ------------------------------------------------------------------------
\* google.golang.org/grpc/metadata, as called at context.go:159-161
\* ------------------------------------------------------------------------
\* An MD is a function from keys to sequences of values.
EmptyMD == [k \in {} |-> <<>>]
MDGet(md, k) == IF k \in DOMAIN md THEN md[k] ELSE <<>>
MDAppend(md, k, vs) ==
    [x \in DOMAIN md \cup {k} |-> IF x = k THEN MDGet(md, k) \o vs ELSE md[x]]

\* metadata.Pairs: each key is lower-cased and its value appended to the
\* values the key already has. `pairs` is the list the code builds, one
\* <<key, value>> element for each two strings it appends.
RECURSIVE PairsFrom(_, _, _)
PairsFrom(pairs, i, md) ==
    IF i > Len(pairs) THEN md
    ELSE PairsFrom(pairs, i + 1, MDAppend(md, ToLower(pairs[i][1]), <<pairs[i][2]>>))
Pairs(pairs) == PairsFrom(pairs, 1, EmptyMD)

\* metadata.Join(a, b): for each key the values of a, then those of b
Join(a, b) == [k \in DOMAIN a \cup DOMAIN b |-> MDGet(a, k) \o MDGet(b, k)]


\* ------------------------------------------------------------------------
\* context.Context and http.Header, as context.go uses them
\* ------------------------------------------------------------------------
\* A context is the record of what the code reads and sets: its deadline and
\* whether it carries the server span. Times are offsets, in nanoseconds,
\* from the instant `now` at which the call reads the clock.
Background == [hasDeadline |-> FALSE, deadline |-> Zero64, hasSpan |-> FALSE]
WithDeadlineAt(d) == [hasDeadline |-> TRUE, deadline |-> d, hasSpan |-> FALSE]

\* context.WithTimeout(parent, timeout): the deadline now + timeout, unless
\* the parent's deadline is earlier, which then stays in force.
WithTimeout(parent, t) ==
    IF parent.hasDeadline /\ Less64(parent.deadline, t) THEN parent
    ELSE [parent EXCEPT !.hasDeadline = TRUE, !.deadline = t]

\* http.Header.Get(key): the first value under the canonical form of key,
\* "" when there is none
HeaderGet(h, key) ==
    LET k == CanonicalMIMEHeaderKey(key)
    IN  IF k \in DOMAIN h /\ Len(h[k]) > 0 THEN h[k][1] ELSE <<>>

\* ------------------------------------------------------------------------
\* The inputs: requests, muxes and contexts
\* ------------------------------------------------------------------------
\* the most header values a request holds, over all its header names
MaxVals == 2
\* the most metadata annotators a mux has
MaxAnnotators == 2

hGrpcMetadataFoo == <<71, 114, 112, 99, 45, 77, 101, 116, 97, 100, 97, 116, 97, 45, 70, 111, 111>>  \* "Grpc-Metadata-Foo"
hgrpcmetadatafoo == <<103, 114, 112, 99, 45, 109, 101, 116, 97, 100, 97, 116, 97, 45, 102, 111, 111>>  \* "grpc-metadata-foo"
hGrpcMetadataAuthorization == <<71, 114, 112, 99, 45, 77, 101, 116, 97, 100, 97, 116, 97, 45, 65, 117, 116, 104, 111, 114, 105, 122, 97, 116, 105, 111, 110>>  \* "Grpc-Metadata-Authorization"
hGrpcMetadataTestBin == <<71, 114, 112, 99, 45, 77, 101, 116, 97, 100, 97, 116, 97, 45, 84, 101, 115, 116, 45, 66, 105, 110>>  \* "Grpc-Metadata-Test-Bin"
hXTestBin == <<88, 45, 84, 101, 115, 116, 45, 66, 105, 110>>  \* "X-Test-Bin"
hGrpcMetadataXForwardedFor == <<71, 114, 112, 99, 45, 77, 101, 116, 97, 100, 97, 116, 97, 45, 88, 45, 70, 111, 114, 119, 97, 114, 100, 101, 100, 45, 70, 111, 114>>  \* "Grpc-Metadata-X-Forwarded-For"
hSomeIrrelevantHeader == <<83, 111, 109, 101, 45, 73, 114, 114, 101, 108, 101, 118, 97, 110, 116, 45, 72, 101, 97, 100, 101, 114>>  \* "Some-Irrelevant-Header"

vToken == <<84, 111, 107, 101, 110, 32, 49>>  \* "Token 1"
vValue1 == <<86, 97, 108, 117, 101, 49>>  \* "Value1"
vValue2 == <<86, 97, 108, 117, 101, 50>>  \* "Value2"
vValue3 == <<86, 97, 108, 117, 101, 51>>  \* "Value3"
vSome == <<115, 111, 109, 101, 32, 118, 97, 108, 117, 101>>  \* "some value"
b64a == <<89, 81, 61, 61>>  \* "YQ==", the padded base64 of "a"
b64ab == <<89, 87, 73>>  \* "YWI", the raw base64 of "ab"
b64bad == <<89, 81, 61>>  \* "YQ=", neither
t1S == <<49, 83>>  \* "1S"
t0n == <<48, 110>>  \* "0n"
t1x == <<49, 120>>  \* "1x"
vClient == <<49, 57, 50, 46, 48, 46, 50, 46, 49, 48, 48>>  \* "192.0.2.100"
vProxyHost == <<112, 114, 111, 120, 121, 46, 101, 120, 97, 109, 112, 108, 101, 46, 99, 111, 109>>  \* "proxy.example.com"
vHost == <<119, 119, 119, 46, 101, 120, 97, 109, 112, 108, 101, 46, 99, 111, 109>>  \* "www.example.com"
vRemote == <<49, 57, 50, 46, 48, 46, 50, 46, 50, 48, 48, 58, 49, 50, 51, 52, 53>>  \* "192.0.2.200:12345"
vRemoteNoPort == <<49, 57, 50, 46, 48, 46, 50, 46, 50, 48, 48>>  \* "192.0.2.200"
vFoo == <<102, 111, 111>>  \* "foo"
vBar == <<98, 97, 114>>  \* "bar"
vQux == <<113, 117, 120>>  \* "qux"

\* The header collections over the names S that hold at most b values in
\* all; pool[n] is the set of values a header named n is drawn from.
RECURSIVE HeadersUpTo(_, _, _)
HeadersUpTo(pool, S, b) ==
    IF S = {} \/ b = 0 THEN {EmptyMD}
    ELSE LET n == CHOOSE x \in S : TRUE
         IN  HeadersUpTo(pool, S \ {n}, b)
             \cup UNION {{h @@ (n :> vs) : h \in HeadersUpTo(pool, S \ {n}, b - k),
                                          vs \in [1..k -> pool[n]]} : k \in 1..b}

Requests(pool, hosts, addrs) ==
    {[Header |-> h, Host |-> ho, RemoteAddr |-> a] :
        h \in HeadersUpTo(pool, DOMAIN pool, MaxVals), ho \in hosts, a \in addrs}

\* The metadata annotators a mux is built with (WithMetadata): md1 and md2
\* return a bag of their own, under a key they share. A mux registers an
\* annotator once.
Annotators == {"md1", "md2"}
AnnotatorMD(a) ==
    IF a = "md1" THEN (vFoo :> <<vBar>>) ELSE (vFoo :> <<vQux>>)
AnnotatorLists(n) ==
    {as \in UNION {[1..k -> Annotators] : k \in 0..n} :
        \A i, j \in 1..Len(as) : as[i] = as[j] => i = j}

Muxes(matchers, n) ==
    {[incomingHeaderMatcher |-> m, metadataAnnotators |-> as] :
        m \in matchers, as \in AnnotatorLists(n)}

\* the values written to DefaultContextTimeout (context_test.go:140, 325)
DefaultTimeouts == {Zero64, Mul64(I64(10), Second)}

\* ------------------------------------------------------------------------
\* State
\* ------------------------------------------------------------------------
VARIABLES
    DefaultContextTimeout,  \* the package variable (context.go:43)
    req,        \* the *http.Request: Header, Host, RemoteAddr
    mux,        \* the *ServeMux: incomingHeaderMatcher, metadataAnnotators
    inCtx,      \* the ctx argument of the call
    pc,         \* where the call stands
    ctx,        \* annotateContext's ctx
    timeout,    \* annotateContext's timeout
    pairs,      \* annotateContext's pairs
    remaining,  \* the header names the range loop has not visited yet
    md,         \* annotateContext's md and whether it is non-nil
    nextAnn,    \* the index of the next annotator of the loop at line 160
    span,       \* the server span: "none", "started", "finished"
    ret,        \* what the call returned
    visited,    \* history: the <<name, value>> the range loop visited, in order
    calls,      \* history: the annotators invoked, in order
    run,        \* how many calls were made on this request
    prev        \* what the call before this one returned

vars == <<DefaultContextTimeout, req, mux, inCtx, pc, ctx, timeout, pairs,
          remaining, md, nextAnn, span, ret, visited, calls, run, prev>>

NoResult == [err |-> "none", msg |-> "", nilCtx |-> TRUE, hasDeadline |-> FALSE,
             deadline |-> Zero64, attached |-> "none", md |-> EmptyMD]
NoPrev == [ret |-> NoResult, visited |-> <<>>]
NilMD == [set |-> FALSE, md |-> EmptyMD]

InitWith(reqs, muxes) ==
    /\ DefaultContextTimeout = Zero64
    /\ req \in reqs
    /\ mux \in muxes
    /\ inCtx = Background
    /\ pc = "idle"
    /\ ctx = Background
    /\ timeout = Zero64
    /\ pairs = <<>>
    /\ remaining = {}
    /\ md = NilMD
    /\ nextAnn = 1
    /\ span = "none"
    /\ ret = NoResult
    /\ visited = <<>>
    /\ calls = <<>>
    /\ run = 0
    /\ prev = NoPrev

\* ------------------------------------------------------------------------
\* annotateContext (context.go:87-164), step by step
\* ------------------------------------------------------------------------
\* `return nil, nil, status.Errorf(codes.InvalidArgument, ...)`, and the
\* caller's `return nil, err` (context.go:63-65, 77-79)
InvalidArgument(msg) ==
    [err |-> "InvalidArgument", msg |-> msg, nilCtx |-> TRUE,
     hasDeadline |-> FALSE, deadline |-> Zero64, attached |-> "none",
     md |-> EmptyMD]

\* a list that is carried over from the call before
stalePairs(old) == old

\* `var pairs []string` (context.go:103): every call starts an empty list
freshPairs(old) == <<>>

\* the loop body without the pass-through of context.go:117-119
headerValueNoPassThrough(m, name, val, p) ==
    LET key == CanonicalMIMEHeaderKey(name)
        match == incomingHeaderMatcher(m, key)
    IN  IF ~match.ok THEN [ok |-> TRUE, pairs |-> p]
        ELSE IF HasSuffix(key, metadataHeaderBinarySuffix)
        THEN LET b == decodeBinHeader(val)
             IN  IF b.ok THEN [ok |-> TRUE, pairs |-> Append(p, <<match.h, b.bytes>>)]
                 ELSE [ok |-> FALSE, pairs |-> p]
        ELSE [ok |-> TRUE, pairs |-> Append(p, <<match.h, val>>)]

\* The body of the inner loop (context.go:115-132) for one value of one
\* header: the list with what the value adds, or the binary header's error.
headerValue(m, name, val, p) ==
    LET key == CanonicalMIMEHeaderKey(name)
        p1 == IF key = AuthorizationKey
              THEN Append(p, <<authorizationLower, val>>)
              ELSE p
        match == incomingHeaderMatcher(m, key)
    IN  IF ~match.ok THEN [ok |-> TRUE, pairs |-> p1]
        ELSE IF HasSuffix(key, metadataHeaderBinarySuffix)
        THEN LET b == decodeBinHeader(val)
             IN  IF b.ok THEN [ok |-> TRUE, pairs |-> Append(p1, <<match.h, b.bytes>>)]
                 ELSE [ok |-> FALSE, pairs |-> p1]
        ELSE [ok |-> TRUE, pairs |-> Append(p1, <<match.h, val>>)]

\* the inner loop stopping after a header's first value
RECURSIVE headerValuesFirstOnly(_, _, _, _, _)
headerValuesFirstOnly(m, name, vals, i, p) ==
    IF i > Len(vals) \/ i > 1 THEN [ok |-> TRUE, pairs |-> p]
    ELSE LET r == headerValue(m, name, vals[i], p)
         IN  IF r.ok THEN headerValuesFirstOnly(m, name, vals, i + 1, r.pairs) ELSE r

\* `for _, val := range vals` (context.go:114): the values in their order,
\* stopping at the first error
RECURSIVE headerValues(_, _, _, _, _)
headerValues(m, name, vals, i, p) ==
    IF i > Len(vals) THEN [ok |-> TRUE, pairs |-> p]
    ELSE LET r == headerValue(m, name, vals[i], p)
         IN  IF r.ok THEN headerValues(m, name, vals, i + 1, r.pairs) ELSE r

\* the forwarded host never emitted
forwardedHostOmitted(r, p) == p

\* context.go:135-139: the forwarded host
forwardedHost(r, p) ==
    LET host == HeaderGet(r.Header, xForwardedHost)
    IN  IF host # <<>> THEN Append(p, <<ToLower(xForwardedHost), host>>)
        ELSE IF r.Host # <<>> THEN Append(p, <<ToLower(xForwardedHost), r.Host>>)
        ELSE p

\* the forwarded-for chain with the new hop on the left
forwardedForHopFirst(r, p) ==
    LET addr == r.RemoteAddr
        split == SplitHostPort(addr)
        fwd == HeaderGet(r.Header, xForwardedFor)
    IN  IF addr = <<>> \/ ~split.ok THEN p
        ELSE IF fwd = <<>> THEN Append(p, <<ToLower(xForwardedFor), split.host>>)
        ELSE Append(p, <<ToLower(xForwardedFor), SprintfCommaSpace(split.host, fwd)>>)

\* context.go:141-151: the forwarded-for chain
forwardedFor(r, p) ==
    LET addr == r.RemoteAddr
        split == SplitHostPort(addr)
        fwd == HeaderGet(r.Header, xForwardedFor)
    IN  IF addr = <<>> THEN p
        ELSE IF ~split.ok THEN p    \* grpclog.Infof("invalid remote addr")
        ELSE IF fwd = <<>> THEN Append(p, <<ToLower(xForwardedFor), split.host>>)
        ELSE Append(p, <<ToLower(xForwardedFor), SprintfCommaSpace(fwd, split.host)>>)

\* context.WithTimeout without the guard of context.go:153
applyTimeoutAlways(c, t) == WithTimeout(c, t)

\* context.go:153-155
applyTimeout(c, t) == IF t # Zero64 THEN WithTimeout(c, t) ELSE c

\* One of the two entry points is called with a context (context.go:61, 75).
\* Which of the two it is matters from its own return on, and is chosen
\* there.
Call(c) ==
    /\ pc = "idle"
    /\ inCtx' = c
    /\ run' = 1
    /\ pc' = "extract"
    /\ UNCHANGED <<DefaultContextTimeout, req, mux, ctx, timeout, pairs,
                   remaining, md, nextAnn, span, ret, visited, calls, prev>>

\* The caller makes the same call a second time: the same request, mux and
\* context. What the first call left in its local variables is dead; the
\* second call sets each of them anew before it reads it.
Recall ==
    /\ pc = "done"
    /\ run = 1
    /\ run' = 2
    /\ prev' = [ret |-> ret, visited |-> visited]
    /\ pc' = "extract"
    /\ ctx' = Background
    /\ timeout' = Zero64
    /\ remaining' = {}
    /\ md' = NilMD
    /\ nextAnn' = 1
    /\ span' = "none"
    /\ ret' = NoResult
    /\ visited' = <<>>
    /\ calls' = <<>>
    /\ UNCHANGED <<DefaultContextTimeout, req, mux, inCtx, pairs>>

\* DefaultContextTimeout is assigned before the call (context_test.go:140).
SetDefaultContextTimeout(d) ==
    /\ pc = "idle"
    /\ d # DefaultContextTimeout
    /\ DefaultContextTimeout' = d
    /\ UNCHANGED <<req, mux, inCtx, pc, ctx, timeout, pairs, remaining, md,
                   nextAnn, span, ret, visited, calls, run, prev>>

\* context.go:88-93: the tracer cannot extract a wire context
ExtractFails ==
    /\ pc = "extract"
    /\ ret' = InvalidArgument("invalid HTTP request parameters")
    /\ pc' = "done"
    /\ UNCHANGED <<DefaultContextTimeout, req, mux, inCtx, ctx, timeout, pairs,
                   remaining, md, nextAnn, span, visited, calls, run, prev>>

\* context.go:88-103: the wire context is extracted, the server span is
\* started and put into the context
StartSpan ==
    /\ pc = "extract"
    /\ span' = "started"
    /\ ctx' = [inCtx EXCEPT !.hasSpan = TRUE]
    /\ pairs' = freshPairs(pairs)
    /\ pc' = "timeout"
    /\ UNCHANGED <<DefaultContextTimeout, req, mux, inCtx, timeout, remaining,
                   md, nextAnn, ret, visited, calls, run, prev>>

\* the return on an invalid Grpc-Timeout without the deferred Finish
TimeoutInvalidSpanOpen ==
    /\ pc = "timeout"
    /\ LET tm == HeaderGet(req.Header, metadataGrpcTimeout)
       IN  tm # <<>> /\ ~timeoutDecode(tm).ok
    /\ ret' = InvalidArgument("invalid grpc-timeout")
    /\ pc' = "done"
    /\ UNCHANGED <<DefaultContextTimeout, req, mux, inCtx, ctx, timeout, pairs,
                   remaining, md, nextAnn, span, visited, calls, run, prev>>

\* context.go:104-111 where the Grpc-Timeout header does not decode; the
\* deferred serverSpan.Finish() runs
TimeoutInvalid ==
    /\ pc = "timeout"
    /\ LET tm == HeaderGet(req.Header, metadataGrpcTimeout)
       IN  tm # <<>> /\ ~timeoutDecode(tm).ok
    /\ span' = "finished"
    /\ ret' = InvalidArgument("invalid grpc-timeout")
    /\ pc' = "done"
    /\ UNCHANGED <<DefaultContextTimeout, req, mux, inCtx, ctx, timeout, pairs,
                   remaining, md, nextAnn, visited, calls, run, prev>>

\* context.go:104-111 otherwise: the timeout is the header's, or the default
TimeoutResolved ==
    /\ pc = "timeout"
    /\ LET tm == HeaderGet(req.Header, metadataGrpcTimeout)
       IN  /\ tm # <<>> => timeoutDecode(tm).ok
           /\ timeout' = IF tm # <<>> THEN timeoutDecode(tm).d
                         ELSE DefaultContextTimeout
    /\ remaining' = DOMAIN req.Header
    /\ pc' = "range"
    /\ UNCHANGED <<DefaultContextTimeout, req, mux, inCtx, ctx, pairs, md,
                   nextAnn, span, ret, visited, calls, run, prev>>

\* context.go:113-134, one header name of the range loop with all its values.
\* Go ranges over the map in an order of its own: any name not yet visited
\* may be the next.
RangeHeader(name) ==
    /\ pc = "range"
    /\ name \in remaining
    /\ LET r == headerValues(mux, name, req.Header[name], 1, pairs)
       IN  /\ r.ok
           /\ pairs' = r.pairs
    /\ visited' = visited \o [i \in 1..Len(req.Header[name]) |-> <<name, req.Header[name][i]>>]
    /\ remaining' = remaining \ {name}
    /\ UNCHANGED <<DefaultContextTimeout, req, mux, inCtx, pc, ctx, timeout, md,
                   nextAnn, span, ret, calls, run, prev>>

\* context.go:124-127: a binary header's value does not decode; the deferred
\* serverSpan.Finish() runs
RangeHeaderInvalid(name) ==
    /\ pc = "range"
    /\ name \in remaining
    /\ ~headerValues(mux, name, req.Header[name], 1, pairs).ok
    /\ span' = "finished"
    /\ ret' = InvalidArgument("invalid binary header")
    /\ pc' = "done"
    /\ UNCHANGED <<DefaultContextTimeout, req, mux, inCtx, ctx, timeout, pairs,
                   remaining, md, nextAnn, visited, calls, run, prev>>

\* context.go:135-159: after the loop, the forwarded entries are appended,
\* the timeout applied, and the bag built unless the list is empty
Forward ==
    /\ pc = "range"
    /\ remaining = {}
    /\ LET p == forwardedFor(req, forwardedHost(req, pairs))
       IN  /\ pairs' = p
           /\ ctx' = applyTimeout(ctx, timeout)
           /\ IF Len(p) = 0
              THEN /\ md' = NilMD
                   /\ pc' = "return"
              ELSE /\ md' = [set |-> TRUE, md |-> Pairs(p)]
                   /\ pc' = IF Len(mux.metadataAnnotators) = 0 THEN "return"
                            ELSE "annotate"
    /\ nextAnn' = 1
    /\ UNCHANGED <<DefaultContextTimeout, req, mux, inCtx, timeout, remaining,
                   span, ret, visited, calls, run, prev>>

\* context.go:160-162: one turn of the loop over mux.metadataAnnotators
Annotate ==
    /\ pc = "annotate"
    /\ LET mda == mux.metadataAnnotators[nextAnn]
       IN  /\ md' = [set |-> TRUE, md |-> Join(md.md, AnnotatorMD(mda))]
           /\ calls' = Append(calls, mda)
    /\ nextAnn' = nextAnn + 1
    /\ pc' = IF nextAnn = Len(mux.metadataAnnotators) THEN "return" ELSE "annotate"
    /\ UNCHANGED <<DefaultContextTimeout, req, mux, inCtx, ctx, timeout, pairs,
                   remaining, span, ret, visited, run, prev>>

\* what AnnotateContext / AnnotateIncomingContext return after a successful
\* annotateContext (context.go:66-70, 80-84)
attach(c, m, kind) ==
    [err |-> "nil", msg |-> "", nilCtx |-> FALSE, hasDeadline |-> c.hasDeadline,
     deadline |-> c.deadline,
     attached |-> IF m.set THEN kind ELSE "none",
     md |-> IF m.set THEN m.md ELSE EmptyMD]

\* context.go:163 and 66-70: annotateContext returns, its deferred
\* serverSpan.Finish() runs, and AnnotateContext attaches the bag as
\* outgoing metadata
AnnotateContext ==
    /\ pc = "return"
    /\ span' = "finished"
    /\ ret' = attach(ctx, md, "outgoing")
    /\ pc' = "done"
    /\ UNCHANGED <<DefaultContextTimeout, req, mux, inCtx, ctx, timeout, pairs,
                   remaining, md, nextAnn, visited, calls, run, prev>>

\* context.go:163 and 80-84: the same, attached as incoming metadata
AnnotateIncomingContext ==
    /\ pc = "return"
    /\ span' = "finished"
    /\ ret' = attach(ctx, md, "incoming")
    /\ pc' = "done"
    /\ UNCHANGED <<DefaultContextTimeout, req, mux, inCtx, ctx, timeout, pairs,
                   remaining, md, nextAnn, visited, calls, run, prev>>

\* the contexts a call is made with: context.Background(), and a context
\* whose deadline is five seconds away
InputContexts == {Background, WithDeadlineAt(Mul64(I64(5), Second))}

\* the steps of a call
Steps ==
    \/ ExtractFails
    \/ StartSpan
    \/ TimeoutInvalid
    \/ TimeoutResolved
    \/ \E name \in DOMAIN req.Header : RangeHeader(name)
    \/ \E name \in DOMAIN req.Header : RangeHeaderInvalid(name)
    \/ Forward
    \/ Annotate
    \/ AnnotateContext
    \/ AnnotateIncomingContext

\* One call on a request, made with context.Background() as the tests make
\* it.
Next ==
    \/ Call(Background)
    \/ Steps

\* One call, made with either context after DefaultContextTimeout was set.
NextTimeout ==
    \/ \E c \in InputContexts : Call(c)
    \/ \E d \in DefaultTimeouts : SetDefaultContextTimeout(d)
    \/ Steps

\* The same call made twice.
NextTwice ==
    \/ Call(Background)
    \/ Recall
    \/ Steps

\* ------------------------------------------------------------------------
\* Specifications
\* ------------------------------------------------------------------------
\* Headers into the bag: the Authorization header, custom-metadata headers
\* whose names differ by case only, binary headers the default matcher
\* accepts and drops, a Grpc-Timeout header that does not decode and a
\* header no rule recognizes.
HeaderPool ==
    (AuthorizationKey :> {vToken})
    @@ (hGrpcMetadataFoo :> {vValue1, vValue2})
    @@ (hgrpcmetadatafoo :> {vValue3})
    @@ (hGrpcMetadataTestBin :> {b64a, b64ab, b64bad})
    @@ (hXTestBin :> {b64bad})
    @@ (metadataGrpcTimeout :> {t1x})
    @@ (hSomeIrrelevantHeader :> {vSome})

Init ==
    InitWith(Requests(HeaderPool, {<<>>, vHost}, {<<>>, vRemote}),
             Muxes({"default", "all"}, MaxAnnotators))

Spec == Init /\ [][Next]_vars

\* The timeout and the deadline: a Grpc-Timeout header that is empty, valid
\* (one second, zero) or invalid, beside a custom-metadata header and a
\* binary header.
TimeoutPool ==
    (metadataGrpcTimeout :> {<<>>, t1S, t0n, t1x})
    @@ (hGrpcMetadataFoo :> {vValue1})
    @@ (hGrpcMetadataTestBin :> {b64a, b64bad})

InitTimeout ==
    InitWith(Requests(TimeoutPool, {<<>>, vHost}, {<<>>}),
             Muxes({"default"}, MaxAnnotators))

SpecTimeout == InitTimeout /\ [][NextTimeout]_vars

\* The forwarded entries: the X-Forwarded-For and X-Forwarded-Host headers,
\* a custom-metadata header that maps to the forwarded-for key, and remote
\* addresses that are empty, split, or have no port.
ForwardedPool ==
    (xForwardedFor :> {<<>>, vClient})
    @@ (xForwardedHost :> {<<>>, vProxyHost})
    @@ (hGrpcMetadataXForwardedFor :> {vValue1})
    @@ (hSomeIrrelevantHeader :> {vSome})
    @@ (metadataGrpcTimeout :> {t1x})
    @@ (hGrpcMetadataTestBin :> {b64bad})

InitForwarded ==
    InitWith(Requests(ForwardedPool, {<<>>, vHost}, {<<>>, vRemote, vRemoteNoPort}),
             Muxes({"default", "all"}, MaxAnnotators))

SpecForwarded == InitForwarded /\ [][Next]_vars

\* The same call twice: header names that map to one key.
TwicePool ==
    (AuthorizationKey :> {vToken})
    @@ (hGrpcMetadataAuthorization :> {vValue1})
    @@ (hGrpcMetadataFoo :> {vValue1, vValue2})
    @@ (hgrpcmetadatafoo :> {vValue3})
    @@ (metadataGrpcTimeout :> {t1x})
    @@ (hGrpcMetadataTestBin :> {b64bad})

InitTwice ==
    InitWith(Requests(TwicePool, {vHost}, {<<>>, vRemote}),
             Muxes({"default", "all"}, MaxAnnotators))

SpecTwice == InitTwice /\ [][NextTwice]_vars

\* ------------------------------------------------------------------------
\* Properties
\* ------------------------------------------------------------------------
Done == pc = "done"
Succeeded == pc = "done" /\ ret.err = "nil"
Failed == pc = "done" /\ ret.err = "InvalidArgument"

\* the values a list of annotators adds under key k, in the list's order
RECURSIVE AnnotatorValues(_, _, _)
AnnotatorValues(as, j, k) ==
    IF j > Len(as) THEN <<>>
    ELSE MDGet(AnnotatorMD(as[j]), k) \o AnnotatorValues(as, j + 1, k)

\* the bag of the header-derived and forwarded entries alone
HeaderDerived == Pairs(pairs)

\* how often value v stands under key k of bag m
Count(m, k, v) == Cardinality({i \in 1..Len(MDGet(m, k)) : MDGet(m, k)[i] = v})

\* C1. Every call that returns without error has invoked each annotator of
\* the mux exactly once, in registration order, and its bag holds under
\* every key the header-derived values first, then the annotators' values
\* in registration order; also for a request that yields no header-derived
\* or forwarded entry.
C1_AnnotatorsInvokedAndMerged ==
    Succeeded =>
        /\ calls = mux.metadataAnnotators
        /\ \A k \in DOMAIN ret.md \cup DOMAIN HeaderDerived \cup {vFoo} :
              MDGet(ret.md, k) =
                  MDGet(HeaderDerived, k) \o AnnotatorValues(mux.metadataAnnotators, 1, k)

\* C1 holds of every call whose request yields an entry.
C1_HoldsWithEntries == Len(pairs) > 0 => C1_AnnotatorsInvokedAndMerged

\* The entries a request yields, each an occurrence with its key and value:
\* for every value of every header the pass-through of Authorization and
\* the entry the matcher maps it to (decoded under a binary name), the
\* forwarded host and the forwarded-for chain, and every annotator's values.
HeaderOccurrences ==
    {<<n, i, w>> \in (DOMAIN req.Header) \X (1..MaxVals + 1) \X {"authorization", "matched"} :
        /\ i <= Len(req.Header[n])
        /\ w = "authorization" => CanonicalMIMEHeaderKey(n) = AuthorizationKey
        /\ w = "matched" => incomingHeaderMatcher(mux, CanonicalMIMEHeaderKey(n)).ok}
OccurrenceKey(o) ==
    IF o[3] = "authorization" THEN authorizationLower
    ELSE ToLower(incomingHeaderMatcher(mux, CanonicalMIMEHeaderKey(o[1])).h)
OccurrenceValue(o) ==
    LET v == req.Header[o[1]][o[2]]
    IN  IF o[3] = "matched" /\ HasSuffix(CanonicalMIMEHeaderKey(o[1]), metadataHeaderBinarySuffix)
        THEN decodeBinHeader(v).bytes
        ELSE v

\* the first value of a header as the code reads it, <<>> when it has none
FirstValue(name) == HeaderGet(req.Header, name)
ResolvedHost == IF FirstValue(xForwardedHost) # <<>> THEN FirstValue(xForwardedHost) ELSE req.Host
RemoteSplits == req.RemoteAddr # <<>> /\ SplitHostPort(req.RemoteAddr).ok
RemoteIP == SplitHostPort(req.RemoteAddr).host
ForwardedChain ==
    IF FirstValue(xForwardedFor) = <<>> THEN RemoteIP
    ELSE FirstValue(xForwardedFor) \o <<44, 32>> \o RemoteIP

\* how often the request's entries hold value v under key k
ExpectedCount(k, v) ==
    Cardinality({o \in HeaderOccurrences : OccurrenceKey(o) = k /\ OccurrenceValue(o) = v})
    + (IF k = ToLower(xForwardedHost) /\ ResolvedHost # <<>> /\ v = ResolvedHost THEN 1 ELSE 0)
    + (IF k = ToLower(xForwardedFor) /\ RemoteSplits /\ v = ForwardedChain THEN 1 ELSE 0)
    + Cardinality({j \in 1..Len(mux.metadataAnnotators) :
                      \E i \in 1..Len(MDGet(AnnotatorMD(mux.metadataAnnotators[j]), k)) :
                          AnnotatorMD(mux.metadataAnnotators[j])[k][i] = v})
ExpectedKeys ==
    {OccurrenceKey(o) : o \in HeaderOccurrences}
    \cup {ToLower(xForwardedHost), ToLower(xForwardedFor), vFoo}
ExpectedValues ==
    {OccurrenceValue(o) : o \in HeaderOccurrences}
    \cup {ResolvedHost, ForwardedChain, vBar, vQux}

\* the bag m holds exactly the request's entries
FullyAssembled(m) ==
    \A k \in ExpectedKeys \cup DOMAIN m :
        /\ \A v \in ExpectedValues : Count(m, k, v) = ExpectedCount(k, v)
        /\ \A i \in 1..Len(MDGet(m, k)) : m[k][i] \in ExpectedValues

\* C2. Every call ends in one of two outcomes: an InvalidArgument error with
\* a nil context and no metadata, or no error and a context to which the
\* fully assembled bag (all matched headers, forwarded entries and annotator
\* output) is attached; never a bag holding part of the request's entries.
C2_AllOrNothing ==
    Done =>
        \/ /\ ret.err = "InvalidArgument"
           /\ ret.nilCtx
           /\ ret.attached = "none"
           /\ ret.md = EmptyMD
        \/ /\ ret.err = "nil"
           /\ ~ret.nilCtx
           /\ FullyAssembled(ret.md)
           /\ ret.md # EmptyMD => ret.attached \in {"outgoing", "incoming"}

\* C2 holds of every call whose request yields an entry, and of every call
\* on a mux without annotators.
C2_HoldsWithEntries ==
    (Len(pairs) > 0 \/ mux.metadataAnnotators = <<>>) => C2_AllOrNothing

\* The Grpc-Timeout header of the request: present when the collection has
\* the name, its value the first one under the name.
TimeoutHeaderPresent == metadataGrpcTimeout \in DOMAIN req.Header
TimeoutHeaderValue == req.Header[metadataGrpcTimeout][1]
\* the call is past the resolution of its timeout
TimeoutIsResolved ==
    \/ pc \in {"range", "annotate", "return"}
    \/ Done /\ ret.msg \notin {"invalid HTTP request parameters", "invalid grpc-timeout"}

\* C3. The timeout a call uses is the decoded duration when the Grpc-Timeout
\* header is present and parseable; the call fails with InvalidArgument when
\* the header is present and unparseable; the timeout is the current value of
\* DefaultContextTimeout when the header is absent. A present header never
\* falls back to the default.
C3_TimeoutResolution ==
    /\ TimeoutIsResolved =>
          IF TimeoutHeaderPresent
          THEN /\ timeoutDecode(TimeoutHeaderValue).ok
               /\ timeout = timeoutDecode(TimeoutHeaderValue).d
          ELSE timeout = DefaultContextTimeout
    /\ (Done /\ ret.msg = "invalid grpc-timeout") =>
          /\ ret.err = "InvalidArgument"
          /\ TimeoutHeaderPresent
          /\ ~timeoutDecode(TimeoutHeaderValue).ok

\* C3 holds of every request whose Grpc-Timeout header, if it has one, has a
\* non-empty first value.
C3_HoldsNonEmpty ==
    (TimeoutHeaderPresent => TimeoutHeaderValue # <<>>) => C3_TimeoutResolution

\* the earlier of two instants
Earlier64(a, b) == IF Less64(a, b) THEN a ELSE b

\* C4 as stated. For every input context and every successful call with
\* resolved timeout T: the returned context carries no deadline when T is
\* zero and the deadline now + T when T is not.
C4_DeadlineIsNowPlusTimeout ==
    Succeeded =>
        IF timeout = Zero64 THEN ~ret.hasDeadline
        ELSE ret.hasDeadline /\ ret.deadline = timeout

\* C4, amended. For an input context without a deadline the returned context
\* carries no deadline when T is zero and the deadline now + T when T is
\* not; for an input context with deadline D it carries D when T is zero and
\* the earlier of D and now + T when T is not.
C4_DeadlineFromTimeoutAndInput ==
    Succeeded =>
        IF ~inCtx.hasDeadline
        THEN IF timeout = Zero64 THEN ~ret.hasDeadline
             ELSE ret.hasDeadline /\ ret.deadline = timeout
        ELSE /\ ret.hasDeadline
             /\ ret.deadline = IF timeout = Zero64 THEN inCtx.deadline
                               ELSE Earlier64(inCtx.deadline, timeout)

\* a successful call with a non-zero timeout on an input context whose
\* deadline is later: the returned deadline is now + T
C4_Witness ==
    /\ Succeeded
    /\ inCtx.hasDeadline
    /\ timeout # Zero64
    /\ ret.hasDeadline
    /\ ret.deadline = timeout
    /\ ret.deadline # inCtx.deadline

\* The values the range loop put under metadata key k, in the order of its
\* visits: for each visited <<name, value>> the Authorization pass-through,
\* then the entry the matcher maps it to.
RECURSIVE LoopValues(_, _)
LoopValues(k, i) ==
    IF i > Len(visited) THEN <<>>
    ELSE LET key == CanonicalMIMEHeaderKey(visited[i][1])
             val == visited[i][2]
             match == incomingHeaderMatcher(mux, key)
             passed == IF key = AuthorizationKey /\ k = authorizationLower
                       THEN <<val>> ELSE <<>>
             stored == IF HasSuffix(key, metadataHeaderBinarySuffix)
                       THEN decodeBinHeader(val).bytes ELSE val
             matched == IF match.ok /\ ToLower(match.h) = k
                        THEN <<stored>> ELSE <<>>
         IN  passed \o matched \o LoopValues(k, i + 1)

\* the values of the returned bag under the forwarded-for key
ForwardedForValues == MDGet(HeaderDerived, ToLower(xForwardedFor))

\* C5 as stated. The x-forwarded-for entry is omitted, and the call succeeds,
\* when RemoteAddr does not split; it is exactly ip when RemoteAddr splits to
\* ip and no X-Forwarded-For value is present, and exactly "e, ip" when a
\* value e is present. At most one x-forwarded-for value is ever emitted.
C5_ForwardedForEntry ==
    Succeeded =>
        /\ Len(MDGet(ret.md, ToLower(xForwardedFor))) <= 1
        /\ MDGet(ret.md, ToLower(xForwardedFor)) =
              IF ~RemoteSplits THEN <<>>
              ELSE IF FirstValue(xForwardedFor) = <<>> THEN <<RemoteIP>>
              ELSE <<FirstValue(xForwardedFor) \o <<44, 32>> \o RemoteIP>>

\* C5, amended. The forwarded-for step emits at most one value under
\* x-forwarded-for, after the values the header loop stored under that key:
\* none when RemoteAddr is empty or does not split (the call still
\* succeeds), ip when the first X-Forwarded-For value is absent or empty,
\* and "e, ip" when that first value e is non-empty.
C5_ForwardedForStep ==
    Succeeded =>
        /\ ForwardedForValues =
              LoopValues(ToLower(xForwardedFor), 1)
              \o (IF ~RemoteSplits THEN <<>>
                  ELSE IF FirstValue(xForwardedFor) = <<>> THEN <<RemoteIP>>
                  ELSE <<FirstValue(xForwardedFor) \o <<44, 32>> \o RemoteIP>>)
        /\ \E n \in 0..Len(MDGet(ret.md, ToLower(xForwardedFor))) :
              ForwardedForValues = SubSeq(MDGet(ret.md, ToLower(xForwardedFor)), 1, n)

\* a successful call on a request with an X-Forwarded-For value and a remote
\* address that splits: the chain is the last header-derived value
C5_Witness ==
    /\ Succeeded
    /\ RemoteSplits
    /\ FirstValue(xForwardedFor) = vClient
    /\ ret.md[ToLower(xForwardedFor)] = <<vClient \o <<44, 32>> \o RemoteIP>>

\* no header of the request is recognized: none is Authorization and none
\* is accepted by the matcher
NoRecognizedHeader ==
    \A n \in DOMAIN req.Header :
        /\ CanonicalMIMEHeaderKey(n) # AuthorizationKey
        /\ ~incomingHeaderMatcher(mux, CanonicalMIMEHeaderKey(n)).ok

\* C6 as stated. For a request none of whose headers is recognized, on a mux
\* without annotators, the bag holds exactly the x-forwarded-host entry when
\* a host is resolvable, and no other key.
C6_OnlyForwardedHost ==
    (Succeeded /\ NoRecognizedHeader /\ mux.metadataAnnotators = <<>>) =>
        ret.md = IF ResolvedHost # <<>> THEN (ToLower(xForwardedHost) :> <<ResolvedHost>>)
                 ELSE EmptyMD

\* C6, amended. For such a request the bag holds exactly the x-forwarded-host
\* entry when a host is resolvable and the x-forwarded-for entry when
\* RemoteAddr splits into host and port, and no other key.
C6_OnlyForwardedEntries ==
    (Succeeded /\ NoRecognizedHeader /\ mux.metadataAnnotators = <<>>) =>
        /\ DOMAIN ret.md =
              (IF ResolvedHost # <<>> THEN {ToLower(xForwardedHost)} ELSE {})
              \cup (IF RemoteSplits THEN {ToLower(xForwardedFor)} ELSE {})
        /\ ResolvedHost # <<>> => ret.md[ToLower(xForwardedHost)] = <<ResolvedHost>>
        /\ RemoteSplits => ret.md[ToLower(xForwardedFor)] = <<ForwardedChain>>

\* a successful call on a request with an unrecognized header only, a host
\* and a remote address that splits: the bag holds the two forwarded keys
C6_Witness ==
    /\ Succeeded
    /\ DOMAIN req.Header = {hSomeIrrelevantHeader}
    /\ NoRecognizedHeader
    /\ mux.metadataAnnotators = <<>>
    /\ req.Host = vHost
    /\ RemoteSplits
    /\ DOMAIN ret.md = {ToLower(xForwardedHost), ToLower(xForwardedFor)}

\* bag m holds value v under key k
Holds(m, k, v) == \E i \in 1..Len(MDGet(m, k)) : m[k][i] = v

\* the values of the request's Authorization headers
AuthorizationValues ==
    {req.Header[n][i] : <<n, i>> \in
        {<<n, i>> \in (DOMAIN req.Header) \X (1..MaxVals + 1) :
            CanonicalMIMEHeaderKey(n) = AuthorizationKey /\ i <= Len(req.Header[n])}}

grpcgatewayAuthorization == MetadataPrefix \o authorizationLower

\* C7 as stated. For every request with an Authorization header of value v,
\* whatever incoming-header matcher the mux has, the bag holds v under
\* `authorization` and under `grpcgateway-authorization`.
C7_AuthorizationUnderBothKeys ==
    Succeeded =>
        \A v \in AuthorizationValues :
            /\ Holds(ret.md, authorizationLower, v)
            /\ Holds(ret.md, grpcgatewayAuthorization, v)

\* C7, amended. Whatever the matcher, the bag holds v under `authorization`;
\* it holds v under `grpcgateway-authorization` when the matcher is the
\* default one, and under the key the matcher maps Authorization to when it
\* is another that accepts the name.
C7_AuthorizationPassThrough ==
    Succeeded =>
        \A v \in AuthorizationValues :
            /\ Holds(ret.md, authorizationLower, v)
            /\ mux.incomingHeaderMatcher = "default" =>
                  Holds(ret.md, grpcgatewayAuthorization, v)
            /\ incomingHeaderMatcher(mux, AuthorizationKey).ok =>
                  Holds(ret.md, ToLower(incomingHeaderMatcher(mux, AuthorizationKey).h), v)

\* a successful call with the default matcher on a request with an
\* Authorization header: its value is under both keys
C7_Witness ==
    /\ Succeeded
    /\ mux.incomingHeaderMatcher = "default"
    /\ AuthorizationValues = {vToken}
    /\ ret.md[authorizationLower] = <<vToken>>
    /\ ret.md[grpcgatewayAuthorization] = <<vToken>>

IsLowerCase(k) == ToLower(k) = k

\* the metadata keys the visited headers map to
LoopKeys ==
    {authorizationLower : i \in {j \in 1..Len(visited) :
        CanonicalMIMEHeaderKey(visited[j][1]) = AuthorizationKey}}
    \cup {ToLower(incomingHeaderMatcher(mux, CanonicalMIMEHeaderKey(visited[i][1])).h) :
            i \in {j \in 1..Len(visited) :
                incomingHeaderMatcher(mux, CanonicalMIMEHeaderKey(visited[j][1])).ok}}

\* the values the forwarded entries put under key k
ForwardedValues(k) ==
    (IF k = ToLower(xForwardedHost) /\ ResolvedHost # <<>> THEN <<ResolvedHost>> ELSE <<>>)
    \o (IF k = ToLower(xForwardedFor) /\ RemoteSplits THEN <<ForwardedChain>> ELSE <<>>)

BothSucceeded == run = 2 /\ Succeeded /\ prev.ret.err = "nil"

\* bags a and b have the same keys and under each key the same values, each
\* as often in the one as in the other
SameValueBags(a, b) ==
    /\ DOMAIN a = DOMAIN b
    /\ \A k \in DOMAIN a :
          /\ Len(a[k]) = Len(b[k])
          /\ \A i \in 1..Len(a[k]) : Count(a, k, a[k][i]) = Count(b, k, a[k][i])

\* the header names of the request with a value stored under key k
HeaderNamesFor(k) ==
    {n \in DOMAIN req.Header :
        \/ CanonicalMIMEHeaderKey(n) = AuthorizationKey /\ k = authorizationLower
        \/ /\ incomingHeaderMatcher(mux, CanonicalMIMEHeaderKey(n)).ok
           /\ ToLower(incomingHeaderMatcher(mux, CanonicalMIMEHeaderKey(n)).h) = k}

\* C9 as stated. Two runs on the same request with the same mux and the same
\* DefaultContextTimeout yield identical bags, the same keys and under each
\* key the same values in the same order, whatever order the headers are
\* iterated in on each run.
C9_IdenticalBags ==
    BothSucceeded => ret.md = prev.ret.md

\* C9, amended. The two runs yield bags with the same keys and under each key
\* the same values as often; the values are in the same order when the two
\* runs iterate the headers in the same order, and under every key to which
\* at most one header name of the request maps.
C9_SameValuesOrderByIteration ==
    BothSucceeded =>
        /\ SameValueBags(ret.md, prev.ret.md)
        /\ visited = prev.visited => ret.md = prev.ret.md
        /\ \A k \in DOMAIN ret.md :
              Cardinality(HeaderNamesFor(k)) <= 1 => ret.md[k] = prev.ret.md[k]

\* two successful runs that iterated the headers Grpc-Metadata-Foo and
\* grpc-metadata-foo in opposite orders: the same values under foo, in
\* opposite orders
C9_Witness ==
    /\ BothSucceeded
    /\ prev.visited = <<<<hGrpcMetadataFoo, vValue1>>, <<hgrpcmetadatafoo, vValue3>>>>
    /\ visited = <<<<hgrpcmetadatafoo, vValue3>>, <<hGrpcMetadataFoo, vValue1>>>>
    /\ mux.incomingHeaderMatcher = "default"
    /\ prev.ret.md[vFoo] = <<vValue1, vValue3>>
    /\ ret.md[vFoo] = <<vValue3, vValue1>>

\* base64 encoding, the inverse the decoding is measured against: the
\* character of a six-bit value, and EncodeToString with padding
\* (StdEncoding) or without (RawStdEncoding)
B64Char(n) ==
    IF n < 26 THEN 65 + n
    ELSE IF n < 52 THEN 71 + n
    ELSE IF n < 62 THEN n - 4
    ELSE IF n = 62 THEN 43
    ELSE 47
RECURSIVE EncodeFrom(_, _, _)
EncodeFrom(b, i, padded) ==
    LET rem == Len(b) - i + 1
        at(j) == IF j <= Len(b) THEN b[j] ELSE 0
        x == at(i) * 65536 + at(i + 1) * 256 + at(i + 2)
        c1 == B64Char(x \div 262144)
        c2 == B64Char((x \div 4096) % 64)
        c3 == B64Char((x \div 64) % 64)
        c4 == B64Char(x % 64)
    IN  IF rem <= 0 THEN <<>>
        ELSE IF rem >= 3 THEN <<c1, c2, c3, c4>> \o EncodeFrom(b, i + 3, padded)
        ELSE IF rem = 2 THEN <<c1, c2, c3>> \o (IF padded THEN <<61>> ELSE <<>>)
        ELSE <<c1, c2>> \o (IF padded THEN <<61, 61>> ELSE <<>>)
EncodeToString(b, padded) == EncodeFrom(b, 1, padded)

\* the byte strings whose encodings the requests carry: "", "a", "ab", "abc"
BinData == {<<>>, <<97>>, <<97, 98>>, <<97, 98, 99>>}
\* v is the base64 of b in the form its length selects
IsBase64Of(v, b) == EncodeToString(b, Len(v) % 4 = 0) = v
ValidBase64(v) == \E b \in BinData : IsBase64Of(v, b)

\* the header values of the request under a name that ends with -Bin, and
\* those of them under a name the matcher accepts
BinHeaderValues ==
    {<<n, i>> \in (DOMAIN req.Header) \X (1..MaxVals + 1) :
        /\ i <= Len(req.Header[n])
        /\ HasSuffix(CanonicalMIMEHeaderKey(n), metadataHeaderBinarySuffix)}
MatchedBinHeaderValues ==
    {o \in BinHeaderValues : incomingHeaderMatcher(mux, CanonicalMIMEHeaderKey(o[1])).ok}

\* value o of a binary header is stored decoded, under some key of the bag
StoredDecoded(o) ==
    \E b \in BinData :
        /\ IsBase64Of(req.Header[o[1]][o[2]], b)
        /\ \E k \in DOMAIN ret.md : Holds(ret.md, k, b)
\* the same, under the key the matcher maps the header to
StoredDecodedUnderKey(o) ==
    \E b \in BinData :
        /\ IsBase64Of(req.Header[o[1]][o[2]], b)
        /\ Holds(ret.md, ToLower(incomingHeaderMatcher(mux, CanonicalMIMEHeaderKey(o[1])).h), b)

\* C10 as stated. For any request header whose canonical name ends with
\* -Bin: a value that is valid base64, in the form its length selects, is
\* stored in the bag as exactly the decoded bytes; a value that is not makes
\* the whole call fail with InvalidArgument and no context.
C10_AnyBinHeader ==
    Done =>
        /\ Succeeded => \A o \in BinHeaderValues : StoredDecoded(o)
        /\ (\E o \in BinHeaderValues : ~ValidBase64(req.Header[o[1]][o[2]])) =>
              Failed /\ ret.nilCtx

\* C10, amended. The same of every -Bin header the incoming-header matcher
\* accepts: its valid value is stored, decoded, under the key the matcher
\* maps it to, and its invalid value fails the call; a call fails on a
\* binary header only if such a value is invalid.
C10_MatchedBinHeader ==
    Done =>
        /\ Succeeded => \A o \in MatchedBinHeaderValues : StoredDecodedUnderKey(o)
        /\ (\E o \in MatchedBinHeaderValues : ~ValidBase64(req.Header[o[1]][o[2]])) =>
              Failed /\ ret.nilCtx /\ ret.attached = "none"
        /\ ret.msg = "invalid binary header" =>
              \E o \in MatchedBinHeaderValues : ~ValidBase64(req.Header[o[1]][o[2]])

\* a successful call on a request with an accepted binary header in raw
\* form: "YWI" is stored as "ab"
C10_Witness ==
    /\ Succeeded
    /\ mux.incomingHeaderMatcher = "default"
    /\ hGrpcMetadataTestBin \in DOMAIN req.Header
    /\ req.Header[hGrpcMetadataTestBin] = <<b64ab>>
    /\ ret.md[<<116, 101, 115, 116, 45, 98, 105, 110>>] = <<<<97, 98>>>>

\* ------------------------------------------------------------------------
\* timeoutDecode on its own: Grpc-Timeout values around every error and
\* around the ends of the 64-bit range
\* ------------------------------------------------------------------------
d1 == <<49>>  \* "1"
dS == <<83>>  \* "S"
dNeg1S == <<45, 49, 83>>  \* "-1S"
dPlus5m == <<43, 53, 109>>  \* "+5m"
d17H == <<49, 55, 72>>  \* "17H"
daS == <<97, 83>>  \* "aS"
d00012u == <<48, 48, 48, 49, 50, 117>>  \* "00012u"
dMaxn == <<57, 50, 50, 51, 51, 55, 50, 48, 51, 54, 56, 53, 52, 55, 55, 53, 56, 48, 55, 110>>  \* "9223372036854775807n"
dOvern == <<57, 50, 50, 51, 51, 55, 50, 48, 51, 54, 56, 53, 52, 55, 55, 53, 56, 48, 56, 110>>  \* "9223372036854775808n"
dMinn == <<45, 57, 50, 50, 51, 51, 55, 50, 48, 51, 54, 56, 53, 52, 55, 55, 53, 56, 48, 56, 110>>  \* "-9223372036854775808n"
dMaxH == <<50, 53, 54, 50, 48, 52, 55, 72>>  \* "2562047H", the most hours an int64 of nanoseconds holds
dOverH == <<50, 53, 54, 50, 48, 52, 56, 72>>  \* "2562048H"
dMaxM == <<57, 50, 50, 51, 51, 55, 50, 48, 51, 54, 56, 53, 52, 55, 55, 53, 56, 48, 55, 77>>  \* "9223372036854775807M"

DecodePool ==
    (metadataGrpcTimeout :> {d1, dS, t1S, t0n, t1x, dNeg1S, dPlus5m, d17H, daS, d00012u,
                             dMaxn, dOvern, dMinn, dMaxH, dOverH, dMaxM})
    @@ (hGrpcMetadataTestBin :> {b64bad})

InitDecode ==
    InitWith(Requests(DecodePool, {vHost}, {<<>>}), Muxes({"default"}, MaxAnnotators))

SpecDecode == InitDecode /\ [][Next]_vars

\* Decimal arithmetic, against which the 64-bit product is measured: a
\* natural number is the sequence of its decimal digits, the most significant
\* first, without leading zeros; zero is the empty sequence.
RECURSIVE StripZeros(_)
StripZeros(ds) ==
    IF Len(ds) > 0 /\ ds[1] = 0 THEN StripZeros(SubSeq(ds, 2, Len(ds))) ELSE ds
RECURSIVE NatDigits(_)
NatDigits(n) == IF n = 0 THEN <<>> ELSE NatDigits(n \div 10) \o <<n % 10>>
\* ds * m for a small m
RECURSIVE TimesSmallFrom(_, _, _, _)
TimesSmallFrom(ds, i, m, carry) ==
    IF i = 0 THEN NatDigits(carry)
    ELSE LET t == ds[i] * m + carry
         IN  TimesSmallFrom(ds, i - 1, m, t \div 10) \o <<t % 10>>
TimesSmall(ds, m) == StripZeros(TimesSmallFrom(ds, Len(ds), m, 0))
TimesPowerOfTen(ds, k) == IF ds = <<>> THEN <<>> ELSE ds \o [i \in 1..k |-> 0]
\* a <= b
RECURSIVE DigitsLeqFrom(_, _, _)
DigitsLeqFrom(a, b, i) ==
    IF i > Len(a) THEN TRUE
    ELSE IF a[i] # b[i] THEN a[i] < b[i]
    ELSE DigitsLeqFrom(a, b, i + 1)
DigitsLeq(a, b) ==
    IF Len(a) # Len(b) THEN Len(a) < Len(b) ELSE DigitsLeqFrom(a, b, 1)

\* 2^63 - 1 and 2^63
MaxInt64Digits == <<9, 2, 2, 3, 3, 7, 2, 0, 3, 6, 8, 5, 4, 7, 7, 5, 8, 0, 7>>
MinInt64Digits == <<9, 2, 2, 3, 3, 7, 2, 0, 3, 6, 8, 5, 4, 7, 7, 5, 8, 0, 8>>

\* the signed integer an int64 holds, in decimal: its eight bytes divided by
\* ten until nothing is left
RECURSIVE DivTenFrom(_, _, _)
DivTenFrom(a, k, rem) ==
    IF k = 0 THEN [q |-> <<>>, r |-> rem]
    ELSE LET t == rem * 256 + a[k]
             rest == DivTenFrom(a, k - 1, t % 10)
         IN  [q |-> rest.q \o <<t \div 10>>, r |-> rest.r]
RECURSIVE DigitsOfBytes(_)
DigitsOfBytes(a) ==
    IF \A i \in 1..Len(a) : a[i] = 0 THEN <<>>
    ELSE LET d == DivTenFrom(a, Len(a), 0)
         IN  DigitsOfBytes(d.q) \o <<d.r>>
IntegerOf(a) ==
    [neg |-> IsNeg64(a), digits |-> DigitsOfBytes(IF IsNeg64(a) THEN Neg64(a) ELSE a)]

\* A timeout string as the claim reads it: its unit, and the integer of its
\* prefix.
UnitChars == {72, 77, 83, 109, 117, 110}
\* the unit's length in nanoseconds is factor * 10^zeros
UnitFactor(u) ==
    IF u = 72 THEN [factor |-> 36, zeros |-> 11]
    ELSE IF u = 77 THEN [factor |-> 6, zeros |-> 10]
    ELSE IF u = 83 THEN [factor |-> 1, zeros |-> 9]
    ELSE IF u = 109 THEN [factor |-> 1, zeros |-> 6]
    ELSE IF u = 117 THEN [factor |-> 1, zeros |-> 3]
    ELSE [factor |-> 1, zeros |-> 0]
PrefixOf(s) == SubSeq(s, 1, Len(s) - 1)
PrefixNegative(s) == Len(s) > 1 /\ s[1] = 45
PrefixBody(s) ==
    IF Len(s) > 1 /\ s[1] \in {43, 45} THEN SubSeq(s, 2, Len(s) - 1) ELSE PrefixOf(s)
PrefixMagnitude(s) == StripZeros([i \in 1..Len(PrefixBody(s)) |-> PrefixBody(s)[i] - 48])
\* the prefix is a base-10 signed 64-bit integer
PrefixIsInt64(s) ==
    /\ Len(PrefixBody(s)) > 0
    /\ \A i \in 1..Len(PrefixBody(s)) : IsDigit(PrefixBody(s)[i])
    /\ DigitsLeq(PrefixMagnitude(s),
                 IF PrefixNegative(s) THEN MinInt64Digits ELSE MaxInt64Digits)
Decodable(s) == Len(s) >= 2 /\ s[Len(s)] \in UnitChars /\ PrefixIsInt64(s)
\* n x unit, the product of the integers
MathProduct(s) ==
    LET u == UnitFactor(s[Len(s)])
        digits == TimesPowerOfTen(TimesSmall(PrefixMagnitude(s), u.factor), u.zeros)
    IN  [neg |-> PrefixNegative(s) /\ digits # <<>>, digits |-> digits]
\* the product is a value of int64
ProductInRange(s) ==
    DigitsLeq(MathProduct(s).digits,
              IF MathProduct(s).neg THEN MinInt64Digits ELSE MaxInt64Digits)

\* the string the call decodes: the first Grpc-Timeout value, when not empty
DecodedString == FirstValue(metadataGrpcTimeout)

\* C11. timeoutDecode(s) returns an error when len(s) < 2, when the last
\* character is none of H, M, S, m, u, n, or when the prefix is no base-10
\* signed 64-bit integer; otherwise, for every such integer n, zero, negative
\* and the largest 64-bit values included, it returns without error the
\* mathematical product of n and the unit's length in nanoseconds.
C11_DecodeIsProduct ==
    DecodedString # <<>> =>
        /\ timeoutDecode(DecodedString).ok = Decodable(DecodedString)
        /\ (Done /\ ret.msg = "invalid grpc-timeout") => ~Decodable(DecodedString)
        /\ TimeoutIsResolved =>
              /\ Decodable(DecodedString)
              /\ IntegerOf(timeout) = MathProduct(DecodedString)

\* C11 holds of every string whose product is a value of int64.
C11_HoldsInRange ==
    (DecodedString # <<>> /\ Decodable(DecodedString) => ProductInRange(DecodedString))
        => C11_DecodeIsProduct

\* the call returned because the trace extraction failed
ExtractionFailed == Done /\ ret.msg = "invalid HTTP request parameters"

\* where the span stands at each point of a call: none before the
\* extraction and after its failure, started while the call works, finished
\* once the call has returned
SpanFollowsCall ==
    /\ pc \in {"idle", "extract"} => span = "none"
    /\ ExtractionFailed =>
          /\ ret.err = "InvalidArgument" /\ ret.nilCtx
          /\ span = "none"
          /\ ~ctx.hasSpan
          /\ timeout = Zero64 /\ remaining = {} /\ visited = <<>> /\ pairs = <<>>
          /\ md = NilMD /\ calls = <<>>
    /\ pc \in {"timeout", "range", "annotate", "return"} =>
          span = "started" /\ ctx.hasSpan
    /\ (Done /\ ~ExtractionFailed) => span = "finished"
    /\ (Done /\ ~ret.nilCtx) => ctx.hasSpan /\ span = "finished"

\* the only steps that change the span: its start, as the step after a
\* successful extraction, and its finish, as the step that returns
SpanStep ==
    span' # span =>
        \/ span = "none" /\ span' = "started" /\ pc = "extract" /\ pc' = "timeout"
        \/ span = "started" /\ span' = "finished" /\ pc' = "done"

\* C12. Trace extraction is the first step of every call: when it fails the
\* call returns InvalidArgument before a span is started, a timeout decoded
\* or a header examined; when it succeeds one server span is started, once,
\* and finished before the call returns on every return path, so no returned
\* context carries an unfinished span.
C12_SpanLifecycle == [](SpanFollowsCall) /\ [][SpanStep]_vars

\* a call that returned on an invalid Grpc-Timeout, its span finished
C12_Witness ==
    /\ Done
    /\ ret.msg = "invalid grpc-timeout"
    /\ span = "finished"
    /\ ctx.hasSpan

\* ------------------------------------------------------------------------
\* DefaultContextTimeout written while a call is in flight
\* ------------------------------------------------------------------------
\* Another goroutine assigns DefaultContextTimeout (as context_test.go:140
\* does) with no synchronization, at any point of the call. Where the
\* machine word holds an int64 the store is one step.
StoreDefaultContextTimeout(d) ==
    /\ d # DefaultContextTimeout
    /\ DefaultContextTimeout' = d
    /\ UNCHANGED <<req, mux, inCtx, pc, ctx, timeout, pairs, remaining, md,
                   nextAnn, span, ret, visited, calls, run, prev>>

\* Where the machine word is 32 bits the int64 is two words, and the
\* unsynchronized store is two stores, in no fixed order, between which the
\* read of context.go:104 can fall: one word of d is stored, the low one
\* (bytes 1..4) or the high one (bytes 5..8).
Words == {"low", "high"}
WithWord(old, d, w) ==
    [i \in Limbs |-> IF (w = "low") = (i <= 4) THEN d[i] ELSE old[i]]
StoreWord(d, w) ==
    /\ WithWord(DefaultContextTimeout, d, w) # DefaultContextTimeout
    /\ DefaultContextTimeout' = WithWord(DefaultContextTimeout, d, w)
    /\ UNCHANGED <<req, mux, inCtx, pc, ctx, timeout, pairs, remaining, md,
                   nextAnn, span, ret, visited, calls, run, prev>>

\* one call, with stores of whole values beside it
NextRaceWhole ==
    \/ Call(Background)
    \/ \E d \in DefaultTimeouts : StoreDefaultContextTimeout(d)
    \/ Steps

\* one call, with stores of either kind beside it
NextRace ==
    \/ Call(Background)
    \/ \E d \in DefaultTimeouts : StoreDefaultContextTimeout(d)
    \/ \E d \in DefaultTimeouts, w \in Words : StoreWord(d, w)
    \/ Steps

RacePool ==
    (metadataGrpcTimeout :> {t1S, t1x})
    @@ (hGrpcMetadataFoo :> {vValue1})
    @@ (hGrpcMetadataTestBin :> {b64bad})

InitRace ==
    InitWith(Requests(RacePool, {vHost}, {<<>>}), Muxes({"default"}, MaxAnnotators))

SpecRace == InitRace /\ [][NextRace]_vars
SpecRaceWhole == InitRace /\ [][NextRaceWhole]_vars

\* C13. Each call reads DefaultContextTimeout once: while another thread
\* writes the variable, a call without a Grpc-Timeout header uses one single
\* value, the old or the new and never a mix, for the non-zero test and for
\* the deadline it sets; a call with a valid Grpc-Timeout header has a
\* deadline that does not depend on the default; and the bag of a call
\* depends on nothing a concurrent thread does.
C13_DefaultReadOnce ==
    /\ (TimeoutIsResolved /\ ~TimeoutHeaderPresent) => timeout \in DefaultTimeouts
    /\ Succeeded =>
          /\ IF timeout = Zero64 THEN ~ret.hasDeadline
             ELSE ret.hasDeadline /\ ret.deadline = timeout
          /\ TimeoutHeaderPresent =>
                /\ ret.hasDeadline
                /\ ret.deadline = timeoutDecode(TimeoutHeaderValue).d
          /\ Len(pairs) > 0 => FullyAssembled(ret.md)

\* the value read is one a word-by-word store has left half written
TornRead ==
    /\ TimeoutIsResolved
    /\ ~TimeoutHeaderPresent
    /\ timeout \notin DefaultTimeouts

=============================================================================
